---- MODULE Spec2Model ----
(***************************************************************************)
(* StrepHit: crowd-annotation parsing (strephit/annotation/parse_results)  *)
(* and part-of-speech tagging (strephit/commons/pos_tag).                  *)
(*                                                                         *)
(* Four specifications share this module; each one drives its own group    *)
(* of variables and keeps the other groups at their initial value:         *)
(*   SpecUnit  process_unit applied to one unit's rows                     *)
(*   SpecMain  the parse_results main command                              *)
(*   SpecPost  TTPosTagger.tag_one / _postprocess_tags                     *)
(*   Spec      the pos_tag main command driving tag_many and the pool      *)
(***************************************************************************)
EXTENDS Integers, Sequences, FiniteSets, TLC

VARIABLES
    \* process_unit (SpecUnit)
    unit_sentences,   \* the `sentences` argument: the rows of one unit
    unit_run,         \* what the call did: its return value and the votes taken
    \* parse_results.main (SpecMain)
    reader,           \* the CSV rows read so far, in file order
    sentences,        \* main's dict  _unit_id -> list of rows
    remaining,        \* keys of `sentences` the second loop has not visited yet
    calls,            \* the process_unit calls made so far, <<k, v>> each
    outfile,          \* the JSON lines written so far (the units)
    main_pc,          \* "read", "iterate", "done", "AssertionError"
    \* TTPosTagger.tag_one (SpecPost)
    tagged,           \* make_tags(self.tagger.tag_text(text)): the tagger's output
    skip_unknown,     \* the skip_unknown argument
    clean_tags,       \* what tag_one did: its return value, or the error raised
    \* pos_tag.main and TTPosTagger.tag_many (Spec)
    tagger,           \* --tagger: "tt" or "nltk"
    batch_size,       \* --batch-size
    items,            \* the documents read from the corpus so far (document_key values)
    pos_pc,           \* where main is
    gen_pc,           \* where the tag_many generator is
    how,              \* why the generator left its try block
    jobs,             \* tag_many's list `jobs`: (item, job) pairs
    cur,              \* _finalize_batch's position in the list it was given
    final,            \* _finalize_batch was called from line 149 (after the loop)
    tt_pool,          \* the jobs given to the pool: text, finished, result
    stop_calls,       \* calls of tt_pool.stop_poll()
    yielded,          \* the items yielded so far, with their pos_tag_key value
    total,            \* main's counter; also the number of lines written
    logged            \* the total main logged

unitVars == <<unit_sentences, unit_run>>
mainVars == <<reader, sentences, remaining, calls, outfile, main_pc>>
postVars == <<tagged, skip_unknown, clean_tags>>
tagVars == <<tagger, batch_size, items, pos_pc, gen_pc, how, jobs, cur, final,
             tt_pool, stop_calls, yielded, total, logged>>
vars == <<unitVars, mainVars, postVars, tagVars>>

(***************************************************************************)
(* Bounds and input alphabets.                                             *)
(***************************************************************************)
\* annotators (rows) of the unit given to process_unit
MaxRows == 2
\* rows of the CSV file read by main
MaxCsvRows == 3

\* Python's None, as opposed to the answer string 'None'
None == "<None>"

\* frame element names an annotator may answer, besides '' and 'None'
FENames == {"A", "B"}
Answers == {"", "None"} \cup FENames

\* chunk_00, chunk_01 columns of a unit: two chunks, the same text twice,
\* an empty second chunk
ChunkColumns == {<<"x", "y">>, <<"x", "x">>, <<"x", "">>}
\* fe_00, fe_01 columns of a unit
FEColumns == {<<"A", "B">>, <<"A", "">>, <<"B", "">>}

Range(s) == {s[n] : n \in DOMAIN s}

\* a CSV row as csv.DictReader returns it; columns chunk_NN, fe_NN and
\* answer_chunk_NN are kept as tuples indexed from 1 (column NN is NN + 1)
Row(u, i, s, f, ch, fe, ans) ==
    [unit_id |-> u, id |-> i, sentence |-> s, frame |-> f,
     chunk |-> ch, fe |-> fe, answer |-> ans]

(***************************************************************************)
(* process_unit                                                            *)
(***************************************************************************)
\* lines 17-20: the four assertions
AssertionsHold(unit_id, sents) ==
    /\ \A n \in DOMAIN sents : sents[n].unit_id = unit_id
    /\ Cardinality({sents[n].id : n \in DOMAIN sents}) = 1
    /\ Cardinality({sents[n].sentence : n \in DOMAIN sents}) = 1
    /\ Cardinality({sents[n].frame : n \in DOMAIN sents}) = 1

\* lines 22-23: 1 + the largest column index of the first row
chunk_count(sents) == Len(sents[1].chunk)
fe_count(sents) == Len(sents[1].fe)

\* line 31: the judgment of row n on column i is kept
Kept(sents, n, i) ==
    /\ sents[n].answer[i] # ""
    /\ sents[n].chunk[i] # ""
    /\ sents[n].answer[i] # "None"

\* lines 26-32: chunks[chunk] is the list of the FEs assigned to the chunk;
\* the list is kept as the set of the <<row, column>> places it was built from
chunks(sents) ==
    LET places == {p \in (DOMAIN sents) \X (1 .. chunk_count(sents)) :
                        Kept(sents, p[1], p[2])}
        keys == {sents[p[1]].chunk[p[2]] : p \in places}
    IN  [c \in keys |-> {p \in places : sents[p[1]].chunk[p[2]] = c}]

\* lines 37-39: counts[fe] over the judgments of one chunk
counts(sents, judgments) ==
    LET given == {sents[p[1]].answer[p[2]] : p \in judgments}
    IN  [fe \in given |->
            Cardinality({p \in judgments : sents[p[1]].answer[p[2]] = fe})]

\* lines 41-42: the FEs random.choice draws from
MostVotedAny(sents, judgments) == DOMAIN counts(sents, judgments)
MostVoted(sents, judgments) ==
    LET cnt == counts(sents, judgments)
        most == CHOOSE m \in Range(cnt) : \A j \in Range(cnt) : j <= m
    IN  {fe \in DOMAIN cnt : cnt[fe] = most}

\* d[k] = v on a dict
Put(d, k, v) == [x \in DOMAIN d \cup {k} |-> IF x = k THEN v ELSE d[x]]
EmptyDict == [x \in {} |-> None]

\* lines 35-43: the loop over chunks.iteritems() in the order `order`, with
\* random.choice returning choice[chunk]
RECURSIVE VoteLoop(_, _, _)
VoteLoop(order, choice, fes) ==
    IF order = <<>> THEN fes
    ELSE VoteLoop(Tail(order), choice, Put(fes, choice[Head(order)], Head(order)))

\* lines 46-49: fill in missing FEs
RECURSIVE FillInOverwriting(_, _, _)
FillInOverwriting(sents, i, fes) ==
    IF i > fe_count(sents) THEN fes
    ELSE LET fe == sents[1].fe[i]
         IN  FillInOverwriting(sents, i + 1,
                               IF fe # "" THEN Put(fes, fe, None) ELSE fes)
RECURSIVE FillIn(_, _, _)
FillIn(sents, i, fes) ==
    IF i > fe_count(sents) THEN fes
    ELSE LET fe == sents[1].fe[i]
         IN  FillIn(sents, i + 1,
                    IF fe # "" /\ fe \notin DOMAIN fes
                    THEN Put(fes, fe, None) ELSE fes)

\* the orders in which a dict with these keys may be iterated
Orders(keys) ==
    {o \in [1 .. Cardinality(keys) -> keys] :
        \A a, b \in DOMAIN o : a # b => o[a] # o[b]}

\* what a call that has not returned holds
NoRun == [raised |-> FALSE, returned |-> FALSE, choice |-> EmptyDict,
          id |-> "", sentence |-> "", frame |-> "", fes |-> EmptyDict]

\* lines 16-58: every outcome of process_unit(unit_id, sentences): an
\* AssertionError, or the returned unit together with the FE that
\* random.choice drew for each chunk
process_unit(unit_id, sents) ==
    IF ~AssertionsHold(unit_id, sents)
    THEN {[NoRun EXCEPT !.raised = TRUE]}
    ELSE LET ch == chunks(sents)
         IN  {[raised |-> FALSE, returned |-> TRUE, choice |-> choice,
               id |-> sents[1].id, sentence |-> sents[1].sentence,
               frame |-> sents[1].frame,
               fes |-> FillIn(sents, 1, VoteLoop(order, choice, EmptyDict))] :
                 order \in Orders(DOMAIN ch),
                 choice \in {c \in [DOMAIN ch -> Answers] :
                                \A k \in DOMAIN ch : c[k] \in MostVoted(sents, ch[k])}}

(***************************************************************************)
(* pos_tag: tags, TTPosTagger._postprocess_tags and tag_one                *)
(***************************************************************************)
\* tags in the output of the tagger for one text
MaxTags == 3

\* treetaggerwrapper's Tag(word, pos, lemma) and NotTag(what)
Tag(word, pos, lemma) == [kind |-> "Tag", word |-> word, pos |-> pos, lemma |-> lemma]
NotTag(what) == [kind |-> "NotTag", what |-> what]
TagValues == {Tag("be", "VB", "be"), Tag("fycg", "NN", "<unknown>"), NotTag("<br/>")}

\* line 69:  skip_unknown and isinstance(tag, NotTag) or tag.lemma == u'<unknown>'
\* `and` binds tighter than `or`, and a NotTag has no attribute lemma
SkipTest(tag, skip) ==
    IF skip /\ tag.kind = "NotTag" THEN "skip"
    ELSE IF tag.kind = "NotTag" THEN "AttributeError"
    ELSE IF tag.lemma = "<unknown>" THEN "skip"
    ELSE "keep"

\* what a call of _postprocess_tags that has not been made holds
NotCalled == [raised |-> FALSE, returned |-> FALSE, tags |-> <<>>]

\* lines 67-73: the loop over tags
RECURSIVE PostprocessLoop(_, _, _)
PostprocessLoop(tags, skip, clean) ==
    IF tags = <<>> THEN [raised |-> FALSE, returned |-> TRUE, tags |-> clean]
    ELSE LET test == SkipTest(Head(tags), skip)
         IN  IF test = "AttributeError"
             THEN [raised |-> TRUE, returned |-> FALSE, tags |-> <<>>]
             ELSE PostprocessLoop(Tail(tags), skip,
                     IF test = "keep" THEN Append(clean, Head(tags)) ELSE clean)

\* lines 65-73
postprocess_tags(tags, skip) == PostprocessLoop(tags, skip, <<>>)

\* lines 97-98, given make_tags(self.tagger.tag_text(text))
tag_one(tags, skip) == postprocess_tags(tags, skip)

(***************************************************************************)
(* pos_tag: TTPosTagger.tag_many, the process pool and main                *)
(***************************************************************************)
\* items the corpus may hold
MaxItems == 6
\* largest --batch-size tried
MaxBatchSize == 2

\* item.get(document_key): the key is missing, the text is empty, or a text
Texts == {"d1", "d2"}
DocumentValues == {None, ""} \cup Texts

\* make_tags of the tagger's output for a text
TreeTagger(text) ==
    IF text = "d1"
    THEN <<Tag("be", "VB", "be"), Tag("fycg", "NN", "<unknown>")>>
    ELSE <<NotTag("<br/>"), Tag("item", "NN", "item")>>

\* line 141:  not item.get(document_key)
Skipped(doc) == doc = None \/ doc = ""

\* line 145:  i % batch_size == 0
BatchFull(i, size) == i % size = 0

\* line 144: tt_pool.tag_text_async(text): a job the pool has not run yet
NewJob(text) == [text |-> text, finished |-> FALSE, result |-> <<>>]

\* line 156: job.wait_finished() returns once the pool has finished the job
WaitReturnsAtOnce(job) == TRUE
WaitReturns(job) == job.finished

\* line 155: the pair _finalize_batch is at
PairAtLast(js, c) == js[Len(js) + 1 - c]
PairAt(js, c) == js[c]

InitPostIdle ==
    /\ tagged = <<>>
    /\ skip_unknown = TRUE
    /\ clean_tags = NotCalled

InitTagIdle ==
    /\ tagger = "tt"
    /\ batch_size = 1
    /\ items = <<>>
    /\ pos_pc = "idle"
    /\ gen_pc = "idle"
    /\ how = ""
    /\ jobs = <<>>
    /\ cur = 1
    /\ final = FALSE
    /\ tt_pool = <<>>
    /\ stop_calls = 0
    /\ yielded = <<>>
    /\ total = 0
    /\ logged = -1

(***************************************************************************)
(* SpecUnit: process_unit on the rows of one unit.  The rows of a unit     *)
(* repeat the unit's own columns (id, sentence, frame, chunk_NN, fe_NN)    *)
(* and differ in the annotator's answers.                                  *)
(***************************************************************************)
UnitRows ==
    UNION {[1 .. n -> {Row(1, "i", "s", "f", ch, fe, ans) :
                          ans \in [1 .. Len(ch) -> Answers]}] :
              n \in 1 .. MaxRows, ch \in ChunkColumns, fe \in FEColumns}

\* sentences[k].append(row), on a defaultdict of lists (line 71)
AppendToReplacing(d, k, row) == Put(d, k, <<row>>)
AppendTo(d, k, row) ==
    Put(d, k, IF k \in DOMAIN d THEN Append(d[k], row) ELSE <<row>>)

InitMainIdle ==
    /\ reader = <<>>
    /\ sentences = EmptyDict
    /\ remaining = {}
    /\ calls = <<>>
    /\ outfile = <<>>
    /\ main_pc = "idle"

InitUnit ==
    /\ unit_sentences \in UnitRows
    /\ unit_run = NoRun
    /\ InitMainIdle
    /\ InitPostIdle
    /\ InitTagIdle

CallProcessUnit ==
    /\ ~unit_run.returned
    /\ unit_run' \in process_unit(1, unit_sentences)
    /\ UNCHANGED <<unit_sentences, mainVars, postVars, tagVars>>

NextUnit == CallProcessUnit

SpecUnit == InitUnit /\ [][NextUnit]_vars

(***************************************************************************)
(* SpecMain: the parse_results main command (lines 63-77).                 *)
(***************************************************************************)
UnitIds == {1, 2}
\* the rows a CSV file may hold; rows of one unit may disagree on the
\* sentence, which the assertion of line 19 rejects
CsvRows ==
    {Row(u, "i", s, "f", <<"x", "y">>, <<"A", "B">>, ans) :
        u \in UnitIds, s \in {"s", "t"}, ans \in {<<"A", "B">>, <<"A", "A">>}}

InitUnitIdle ==
    /\ unit_sentences = <<>>
    /\ unit_run = NoRun

InitMain ==
    /\ reader = <<>>
    /\ sentences = EmptyDict
    /\ remaining = {}
    /\ calls = <<>>
    /\ outfile = <<>>
    /\ main_pc = "read"
    /\ InitUnitIdle
    /\ InitPostIdle
    /\ InitTagIdle

\* lines 70-71: one iteration of the loop over the reader
ReadRow ==
    /\ main_pc = "read"
    /\ Len(reader) < MaxCsvRows
    /\ \E each \in CsvRows :
          /\ reader' = Append(reader, each)
          /\ sentences' = AppendTo(sentences, each.unit_id, each)
    /\ UNCHANGED <<remaining, calls, outfile, main_pc, unitVars, postVars, tagVars>>

\* the reader is exhausted; line 73 starts iterating over the dict
EndOfFile ==
    /\ main_pc = "read"
    /\ remaining' = DOMAIN sentences
    /\ main_pc' = "iterate"
    /\ UNCHANGED <<reader, sentences, calls, outfile, unitVars, postVars, tagVars>>

\* lines 73-76: one iteration, in whatever order the dict yields its keys
ProcessOne ==
    /\ main_pc = "iterate"
    /\ \E k \in remaining :
          \E run \in process_unit(k, sentences[k]) :
             /\ calls' = Append(calls, <<k, sentences[k]>>)
             /\ remaining' = remaining \ {k}
             /\ IF run.raised
                THEN main_pc' = "AssertionError" /\ outfile' = outfile
                ELSE /\ main_pc' = main_pc
                     /\ outfile' = Append(outfile,
                            [id |-> run.id, sentence |-> run.sentence,
                             frame |-> run.frame, fes |-> run.fes])
    /\ UNCHANGED <<reader, sentences, unitVars, postVars, tagVars>>

\* line 77: the loop is over
Done ==
    /\ main_pc = "iterate"
    /\ remaining = {}
    /\ main_pc' = "done"
    /\ UNCHANGED <<reader, sentences, remaining, calls, outfile, unitVars, postVars, tagVars>>

NextMain == ReadRow \/ EndOfFile \/ ProcessOne \/ Done

SpecMain == InitMain /\ [][NextMain]_vars

(***************************************************************************)
(* SpecPost: TTPosTagger.tag_one on the tagger's output for one text.      *)
(***************************************************************************)
InitPost ==
    /\ tagged \in UNION {[1 .. n -> TagValues] : n \in 0 .. MaxTags}
    /\ skip_unknown \in BOOLEAN
    /\ clean_tags = NotCalled
    /\ InitUnitIdle
    /\ InitMainIdle
    /\ InitTagIdle

TagOne ==
    /\ clean_tags = NotCalled
    /\ clean_tags' = tag_one(tagged, skip_unknown)
    /\ UNCHANGED <<tagged, skip_unknown, unitVars, mainVars, tagVars>>

NextPost == TagOne

SpecPost == InitPost /\ [][NextPost]_vars

(***************************************************************************)
(* Spec: the pos_tag main command (lines 176-197) consuming tag_many       *)
(* (lines 131-158), and the pool's workers.                                *)
(***************************************************************************)
Init ==
    /\ tagger \in {"tt", "nltk"}
    /\ batch_size \in 1 .. MaxBatchSize
    /\ items = <<>>
    /\ pos_pc = "call"
    /\ gen_pc = "unstarted"
    /\ how = ""
    /\ jobs = <<>>
    /\ cur = 1
    /\ final = FALSE
    /\ tt_pool = <<>>
    /\ stop_calls = 0
    /\ yielded = <<>>
    /\ total = 0
    /\ logged = -1
    /\ InitUnitIdle
    /\ InitMainIdle
    /\ InitPostIdle

idleVars == <<unitVars, mainVars, postVars>>

\* line 189 with NLTKPosTagger: tag_many(self, documents, tagset=None, **kwargs)
\* takes at most two positional arguments and is given four
CallNLTK ==
    /\ pos_pc = "call"
    /\ tagger = "nltk"
    /\ pos_pc' = "TypeError"
    /\ UNCHANGED <<tagger, batch_size, items, gen_pc, how, jobs, cur, final,
                   tt_pool, stop_calls, yielded, total, logged, idleVars>>

\* line 189 with TTPosTagger: the call returns a generator that has not started
CallTT ==
    /\ pos_pc = "call"
    /\ tagger = "tt"
    /\ pos_pc' = "next"
    /\ UNCHANGED <<tagger, batch_size, items, gen_pc, how, jobs, cur, final,
                   tt_pool, stop_calls, yielded, total, logged, idleVars>>

\* lines 131-139: the first next() creates the pool and enters the try block
Start ==
    /\ pos_pc = "next"
    /\ gen_pc = "unstarted"
    /\ tt_pool' = <<>>
    /\ jobs' = <<>>
    /\ gen_pc' = "for"
    /\ UNCHANGED <<tagger, batch_size, items, pos_pc, how, cur, final,
                   stop_calls, yielded, total, logged, idleVars>>

\* lines 140-142: an item without text is read and skipped
ReadSkip ==
    /\ pos_pc = "next"
    /\ gen_pc = "for"
    /\ Len(items) < MaxItems
    /\ \E doc \in DocumentValues :
          /\ Skipped(doc)
          /\ items' = Append(items, doc)
    /\ UNCHANGED <<tagger, batch_size, pos_pc, gen_pc, how, jobs, cur, final,
                   tt_pool, stop_calls, yielded, total, logged, idleVars>>

\* lines 140-148: an item with text is read and its job submitted; when
\* i % batch_size == 0 the batch is finalized
ReadSubmit ==
    /\ pos_pc = "next"
    /\ gen_pc = "for"
    /\ Len(items) < MaxItems
    /\ \E doc \in DocumentValues :
          /\ ~Skipped(doc)
          /\ items' = Append(items, doc)
          /\ tt_pool' = Append(tt_pool, NewJob(doc))
          /\ jobs' = Append(jobs, [item |-> Len(items) + 1, job |-> Len(tt_pool) + 1])
    /\ IF BatchFull(Len(items), batch_size)
       THEN gen_pc' = "finalize" /\ cur' = 1 /\ final' = FALSE
       ELSE UNCHANGED <<gen_pc, cur, final>>
    /\ UNCHANGED <<tagger, batch_size, pos_pc, how, stop_calls, yielded, total,
                   logged, idleVars>>

\* line 140: reading the next item raises
ReadRaises ==
    /\ pos_pc = "next"
    /\ gen_pc = "for"
    /\ gen_pc' = "finally"
    /\ how' = "raised"
    /\ UNCHANGED <<tagger, batch_size, items, pos_pc, jobs, cur, final, tt_pool,
                   stop_calls, yielded, total, logged, idleVars>>

\* line 144: an item with text is read and tag_text_async raises
SubmitRaises ==
    /\ pos_pc = "next"
    /\ gen_pc = "for"
    /\ Len(items) < MaxItems
    /\ \E doc \in DocumentValues :
          /\ ~Skipped(doc)
          /\ items' = Append(items, doc)
    /\ gen_pc' = "finally"
    /\ how' = "raised"
    /\ UNCHANGED <<tagger, batch_size, pos_pc, jobs, cur, final, tt_pool,
                   stop_calls, yielded, total, logged, idleVars>>

\* line 140 ends the loop; line 149 finalizes what is left in jobs
Exhausted ==
    /\ pos_pc = "next"
    /\ gen_pc = "for"
    /\ gen_pc' = "finalize"
    /\ cur' = 1
    /\ final' = TRUE
    /\ UNCHANGED <<tagger, batch_size, items, pos_pc, how, jobs, tt_pool,
                   stop_calls, yielded, total, logged, idleVars>>

\* a worker of the pool finishes a job
PoolFinish ==
    /\ stop_calls = 0
    /\ \E j \in DOMAIN tt_pool :
          /\ ~tt_pool[j].finished
          /\ tt_pool' = [tt_pool EXCEPT ![j].finished = TRUE,
                                       ![j].result = TreeTagger(tt_pool[j].text)]
    /\ UNCHANGED <<tagger, batch_size, items, pos_pc, gen_pc, how, jobs, cur,
                   final, stop_calls, yielded, total, logged, idleVars>>

\* lines 155-158: wait for the job, store its post-processed tags in the item
\* and yield the item (to main's loop body)
FinalizeYield ==
    /\ pos_pc = "next"
    /\ gen_pc = "finalize"
    /\ cur <= Len(jobs)
    /\ LET pair == PairAt(jobs, cur)
       IN  /\ WaitReturns(tt_pool[pair.job])
           /\ yielded' = Append(yielded,
                  [item |-> pair.item, job |-> pair.job,
                   pos_tag |-> postprocess_tags(tt_pool[pair.job].result, TRUE).tags])
    /\ gen_pc' = "at_yield"
    /\ pos_pc' = "write"
    /\ UNCHANGED <<tagger, batch_size, items, how, jobs, cur, final, tt_pool,
                   stop_calls, total, logged, idleVars>>

\* line 156: wait_finished raises
WaitRaises ==
    /\ pos_pc = "next"
    /\ gen_pc = "finalize"
    /\ cur <= Len(jobs)
    /\ ~tt_pool[PairAt(jobs, cur).job].finished
    /\ gen_pc' = "finally"
    /\ how' = "raised"
    /\ UNCHANGED <<tagger, batch_size, items, pos_pc, jobs, cur, final, tt_pool,
                   stop_calls, yielded, total, logged, idleVars>>

\* line 157: make_tags or _postprocess_tags raises on the job's result
PostprocessRaises ==
    /\ pos_pc = "next"
    /\ gen_pc = "finalize"
    /\ cur <= Len(jobs)
    /\ WaitReturns(tt_pool[PairAt(jobs, cur).job])
    /\ gen_pc' = "finally"
    /\ how' = "raised"
    /\ UNCHANGED <<tagger, batch_size, items, pos_pc, jobs, cur, final, tt_pool,
                   stop_calls, yielded, total, logged, idleVars>>

\* main asks for the next item: the generator goes on after its yield
Resume ==
    /\ pos_pc = "next"
    /\ gen_pc = "at_yield"
    /\ gen_pc' = "finalize"
    /\ cur' = cur + 1
    /\ UNCHANGED <<tagger, batch_size, items, pos_pc, how, jobs, final, tt_pool,
                   stop_calls, yielded, total, logged, idleVars>>

\* _finalize_batch is over: line 148 empties jobs, or (after line 150) the
\* try block is left
BatchDone ==
    /\ pos_pc = "next"
    /\ gen_pc = "finalize"
    /\ cur > Len(jobs)
    /\ IF final
       THEN gen_pc' = "finally" /\ how' = "exhausted" /\ jobs' = jobs
       ELSE gen_pc' = "for" /\ how' = how /\ jobs' = <<>>
    /\ UNCHANGED <<tagger, batch_size, items, pos_pc, cur, final, tt_pool,
                   stop_calls, yielded, total, logged, idleVars>>

\* lines 190-191: main counts the document and writes its line
Write ==
    /\ pos_pc = "write"
    /\ total' = total + 1
    /\ pos_pc' = "next"
    /\ UNCHANGED <<tagger, batch_size, items, gen_pc, how, jobs, cur, final,
                   tt_pool, stop_calls, yielded, logged, idleVars>>

\* line 191: outfile.write raises and main's loop is left
WriteRaises ==
    /\ pos_pc = "write"
    /\ pos_pc' = "IOError"
    /\ UNCHANGED <<tagger, batch_size, items, gen_pc, how, jobs, cur, final,
                   tt_pool, stop_calls, yielded, total, logged, idleVars>>

\* the consumer is gone: the generator suspended at its yield is closed and
\* GeneratorExit is raised at the yield, inside the try block
CloseSkippingFinally ==
    /\ pos_pc = "IOError"
    /\ gen_pc = "at_yield"
    /\ gen_pc' = "ended"
    /\ how' = "closed"
    /\ UNCHANGED <<tagger, batch_size, items, pos_pc, jobs, cur, final, tt_pool,
                   stop_calls, yielded, total, logged, idleVars>>
Close ==
    /\ pos_pc = "IOError"
    /\ gen_pc = "at_yield"
    /\ gen_pc' = "finally"
    /\ how' = "closed"
    /\ UNCHANGED <<tagger, batch_size, items, pos_pc, jobs, cur, final, tt_pool,
                   stop_calls, yielded, total, logged, idleVars>>

\* lines 151-152: the finally clause; then main sees the end of the
\* iteration or the exception
Finally ==
    /\ gen_pc = "finally"
    /\ stop_calls' = stop_calls + 1
    /\ gen_pc' = "ended"
    /\ pos_pc' = IF how = "exhausted" THEN "log"
                 ELSE IF how = "raised" THEN "Exception"
                 ELSE pos_pc
    /\ UNCHANGED <<tagger, batch_size, items, how, jobs, cur, final, tt_pool,
                   yielded, total, logged, idleVars>>

\* lines 195-197
LogTotal ==
    /\ pos_pc = "log"
    /\ logged' = total
    /\ pos_pc' = "done"
    /\ UNCHANGED <<tagger, batch_size, items, gen_pc, how, jobs, cur, final,
                   tt_pool, stop_calls, yielded, total, idleVars>>

Next ==
    \/ CallNLTK \/ CallTT \/ Start
    \/ ReadSkip \/ ReadSubmit \/ ReadRaises \/ SubmitRaises \/ Exhausted
    \/ PoolFinish
    \/ FinalizeYield \/ WaitRaises \/ PostprocessRaises \/ Resume \/ BatchDone
    \/ Write \/ WriteRaises \/ Close \/ Finally \/ LogTotal

Spec == Init /\ [][Next]_vars

(***************************************************************************)
(* Properties of process_unit (checked under SpecUnit).                    *)
(***************************************************************************)
\* the number of valid judgments (answer non-empty, not 'None', chunk
\* non-empty) that gave FE fe to the chunk with text c
VotesFor(c, fe) ==
    Cardinality({p \in (DOMAIN unit_sentences) \X (1 .. Len(unit_sentences[1].chunk)) :
        /\ unit_sentences[p[1]].chunk[p[2]] = c
        /\ unit_sentences[p[1]].answer[p[2]] = fe
        /\ c # "" /\ fe # "" /\ fe # "None"})

\* the chunk texts of the unit that received at least one valid judgment
JudgedChunks ==
    {c \in UNION {Range(unit_sentences[n].chunk) : n \in DOMAIN unit_sentences} :
        \E fe \in Answers : VotesFor(c, fe) > 0}

\* C1: every FE of the returned map that has a chunk received the maximal
\* number of valid judgments given to that chunk (ties: one of the tied FEs)
C1_MajorityVote ==
    unit_run.returned =>
        \A fe \in DOMAIN unit_run.fes :
            unit_run.fes[fe] # None =>
                /\ VotesFor(unit_run.fes[fe], fe) >= 1
                /\ \A g \in Answers :
                      VotesFor(unit_run.fes[fe], g) <= VotesFor(unit_run.fes[fe], fe)

\* a returned unit in which the chosen FE of a chunk beat another FE that also
\* got votes for that chunk
C1_Witness ==
    /\ unit_run.returned
    /\ \E fe \in DOMAIN unit_run.fes :
          /\ unit_run.fes[fe] # None
          /\ \E g \in FENames :
                /\ VotesFor(unit_run.fes[fe], g) >= 1
                /\ VotesFor(unit_run.fes[fe], g) < VotesFor(unit_run.fes[fe], fe)

ListedFEs == {unit_sentences[1].fe[i] : i \in DOMAIN unit_sentences[1].fe} \ {""}
SelectedFEs == {unit_run.choice[c] : c \in DOMAIN unit_run.choice}

\* C6: every non-empty FE listed in the first row is a key of the returned
\* map; it maps to None exactly when no chunk's vote selected it; an FE that
\* a vote selected keeps a chunk whose vote selected it
C6_MissingFilledIn ==
    unit_run.returned =>
        /\ \A fe \in ListedFEs :
              /\ fe \in DOMAIN unit_run.fes
              /\ (unit_run.fes[fe] = None) <=> (fe \notin SelectedFEs)
        /\ \A fe \in SelectedFEs :
              /\ fe \in DOMAIN unit_run.fes
              /\ unit_run.fes[fe] \in DOMAIN unit_run.choice
              /\ unit_run.choice[unit_run.fes[fe]] = fe

\* a returned unit with one listed FE filled in as None and another listed FE
\* holding the chunk its vote selected
C6_Witness ==
    /\ unit_run.returned
    /\ \E fe \in ListedFEs : unit_run.fes[fe] = None
    /\ \E fe \in ListedFEs : fe \in SelectedFEs /\ unit_run.fes[fe] # None

\* C9: every chunk with at least one valid judgment is the value of exactly
\* one FE of the returned map
C9_NoJudgedChunkLost ==
    unit_run.returned =>
        \A c \in JudgedChunks :
            Cardinality({fe \in DOMAIN unit_run.fes : unit_run.fes[fe] = c}) = 1

(***************************************************************************)
(* Properties of parse_results.main (checked under SpecMain).              *)
(***************************************************************************)
RowsOf(k) == SelectSeq(reader, LAMBDA r : r.unit_id = k)
SeenUnitIds == {reader[n].unit_id : n \in DOMAIN reader}
Terminated == main_pc \in {"done", "AssertionError"}

\* every row read is in exactly one unit, that of its _unit_id
GroupedByUnitId ==
    main_pc # "idle" =>
        /\ DOMAIN sentences = SeenUnitIds
        /\ \A k \in DOMAIN sentences : sentences[k] = RowsOf(k)

\* every call made got all and only the rows of its id, no id is given twice,
\* and the assertion of line 17 holds of the call
CallsWellFormed ==
    /\ \A n \in DOMAIN calls :
          /\ calls[n][2] = RowsOf(calls[n][1])
          /\ \A r \in Range(calls[n][2]) : r.unit_id = calls[n][1]
    /\ \A a, b \in DOMAIN calls : a # b => calls[a][1] # calls[b][1]

OnePerUnit ==
    /\ {calls[n][1] : n \in DOMAIN calls} = SeenUnitIds
    /\ Len(outfile) = Cardinality(SeenUnitIds)

\* the rows of one unit agree on id, sentence and frame
UnitsConsistent ==
    \A a, b \in DOMAIN reader :
        reader[a].unit_id = reader[b].unit_id =>
            /\ reader[a].id = reader[b].id
            /\ reader[a].sentence = reader[b].sentence
            /\ reader[a].frame = reader[b].frame

\* C10 as stated: for any sequence of rows, the grouping is by _unit_id, each
\* distinct id gets exactly one process_unit call and one JSON line
C10_Grouping ==
    /\ GroupedByUnitId
    /\ CallsWellFormed
    /\ Terminated => OnePerUnit

\* C10 amended: the same, for files whose rows of one unit agree on id,
\* sentence and frame
C10_GroupingConsistentUnits ==
    /\ GroupedByUnitId
    /\ CallsWellFormed
    /\ (Terminated /\ UnitsConsistent) => (main_pc = "done" /\ OnePerUnit)

\* main is done with two units whose rows were interleaved in the file
C10_Witness ==
    /\ main_pc = "done"
    /\ UnitsConsistent
    /\ Len(reader) = 3
    /\ reader[1].unit_id = reader[3].unit_id
    /\ reader[1].unit_id # reader[2].unit_id
    /\ Len(outfile) = 2

(***************************************************************************)
(* Properties of TTPosTagger.tag_one (checked under SpecPost).             *)
(***************************************************************************)
Removable(tag) == tag.kind = "NotTag" \/ tag.lemma = "<unknown>"

\* C4: with skip_unknown=True the result is the input without its non-tags
\* and unknown lemmas, in order; with skip_unknown=False the call raises
\* nothing and the result is the input
C4_SkipUnknownOptional ==
    clean_tags # NotCalled =>
        /\ clean_tags.returned
        /\ IF skip_unknown
           THEN clean_tags.tags = SelectSeq(tagged, LAMBDA t : ~Removable(t))
           ELSE clean_tags.tags = tagged

(***************************************************************************)
(* Properties of pos_tag.main and TTPosTagger.tag_many (checked under      *)
(* Spec).                                                                  *)
(***************************************************************************)
\* the items read whose document is present and non-empty
WithText == {n \in DOMAIN items : items[n] # None /\ items[n] # ""}
YieldedItems == {yielded[y].item : y \in DOMAIN yielded}

\* C2: no item without text is ever yielded, no item is yielded twice, a
\* yielded item carries the cleaned tags of its own text, and once the input
\* is exhausted every item with text has been yielded
C2_EveryDocumentTaggedOnce ==
    /\ YieldedItems \subseteq WithText
    /\ \A a, b \in DOMAIN yielded : a # b => yielded[a].item # yielded[b].item
    /\ \A y \in DOMAIN yielded :
          yielded[y].pos_tag =
              SelectSeq(TreeTagger(items[yielded[y].item]), LAMBDA t : ~Removable(t))
    /\ how = "exhausted" => YieldedItems = WithText

\* main is done after a run with batches of two in which items were skipped
\* and both texts were tagged
C2_Witness ==
    /\ pos_pc = "done"
    /\ batch_size = 2
    /\ Len(yielded) >= 3
    /\ \E n \in DOMAIN items : items[n] = None
    /\ \E n \in DOMAIN items : items[n] = ""
    /\ \E a, b \in DOMAIN yielded : yielded[a].pos_tag # yielded[b].pos_tag

\* C3: whichever tagger is selected, the call of tag_many is accepted, and
\* when main is done the logged total is the number of lines written
C3_TaggersInterchangeable ==
    /\ pos_pc # "TypeError"
    /\ pos_pc = "done" => logged = total

\* C5: stop_poll is called exactly once on every way the generator ends, not
\* before it ends, and no job is submitted after it
C5_PoolStoppedOnce ==
    /\ [](/\ stop_calls <= 1
          /\ gen_pc = "ended" <=> stop_calls = 1)
    /\ [][stop_calls >= 1 => Len(tt_pool') = Len(tt_pool)]_vars

\* the consumer closed the generator while jobs were still pending, and the
\* pool was stopped
C5_Witness ==
    /\ gen_pc = "ended"
    /\ how = "closed"
    /\ stop_calls = 1
    /\ Len(tt_pool) > Len(yielded)

\* C7: items are yielded in input order, each after its own job finished
C7_OrderAndWait ==
    /\ \A a, b \in DOMAIN yielded : a < b => yielded[a].item < yielded[b].item
    /\ \A y \in DOMAIN yielded :
          /\ tt_pool[yielded[y].job].finished
          /\ tt_pool[yielded[y].job].text = items[yielded[y].item]

\* items of two batches have been yielded, with a skipped item between them
C7_Witness ==
    /\ batch_size = 2
    /\ Len(yielded) >= 3
    /\ \E n \in DOMAIN items :
          /\ n \notin WithText
          /\ yielded[1].item < n
          /\ n < yielded[3].item

\* C8: the jobs submitted and not yet finalized never exceed batch_size
C8_BatchBound ==
    gen_pc \in {"for", "finalize", "at_yield"} =>
        Len(tt_pool) - Len(yielded) <= batch_size

====
